---------------------------- MODULE Spec2Model ----------------------------
(***************************************************************************)
(* FAT directory reading (src/src/dir.rs): the 32-byte record decoder, the *)
(* long-file-name assembler inside Iterator::next, list / rewind, and the  *)
(* path resolver (split_path, find_entry, open_dir, open_file).            *)
(*                                                                         *)
(* A directory is a byte stream behind a cursor; the volume is a function  *)
(* from first-cluster numbers to such streams.  Every operation of FatDir  *)
(* is one action on the root directory's handle; its outcome (a value, an  *)
(* io::Error value, or a panic) is left in op, param and out.             *)
(***************************************************************************)
EXTENDS Integers, Sequences, FiniteSets, TLC

VARIABLES
    disk,       \* the volume: first cluster |-> [bytes, ioErr] (never written)
    pos,        \* byte offset of the root FatDir's reader (self.rdr)
    op,         \* the last operation called
    param,      \* what it was called with: [path], an entry, or [none]
    out,        \* [tag, val]: what it gave its caller, val a record:
                \* [entries], an entry, a handle, or [msg]
    firstList,  \* history: what the first list() gave, and the cursor the
                \* latest list() was called at
    alive,      \* FALSE once an operation has panicked (the thread unwinds)
    overflow_checks  \* the build: TRUE when integer overflow panics (debug)

vars == <<disk, pos, op, param, out, firstList, alive, overflow_checks>>

\* the last call as one record, the values taken out of their records
res ==
    [op |-> op,
     param |-> IF op \in {"open_dir", "open_file"} THEN param.path
               ELSE IF op \in {"to_file", "to_dir"} THEN param
               ELSE "",
     out |-> [tag |-> out.tag,
              val |-> IF out.tag = "Ok" /\ op = "list" THEN out.val.entries
                      ELSE IF out.tag \in {"Ok", "Some"} THEN out.val
                      ELSE out.val.msg]]

---------------------------------------------------------------------------
(* Bounds of the model. *)

\* records in a generated root directory stream
MaxRecs == 2

---------------------------------------------------------------------------
(* Program constants. *)

READ_ONLY == 1
HIDDEN == 2
SYSTEM == 4
VOLUME_ID == 8
DIRECTORY == 16
ARCHIVE == 32
LFN == READ_ONLY + HIDDEN + SYSTEM + VOLUME_ID
LFN_PART_LEN == 13
NAME_LEN == 11
\* bytes read after the attribute byte: entry_type, checksum, name_1[6],
\* reserved_0, name_2[2] of a fragment; reserved_0 .. size of a short entry
LFN_REST == 1 + 1 + 2 * 6 + 2 + 2 * 2
FILE_REST == 1 + 1 + 2 + 2 + 2 + 2 + 2 + 2 + 2 + 4
DELETED_MARK == 229
SLASH == 47

Byte == 0..255

---------------------------------------------------------------------------
(* Integer helpers for the fixed-width arithmetic of the source. *)

\* bit `flag` (a power of two) of `b`
HasBit(b, flag) == (b \div flag) % 2 = 1

\* u8 subtraction in a build without overflow checks
WrappingSub8(a, b) == (a - b + 256) % 256

\* little-endian u16 at bytes[i], bytes[i+1]
U16le(bytes, i) == bytes[i] + 256 * bytes[i + 1]

\* little-endian u32 at bytes[i..i+3]
U32le(bytes, i) == U16le(bytes, i) + 65536 * U16le(bytes, i + 2)

\* n little-endian u16 values starting at bytes[i]
U16sLe(bytes, i, n) == [k \in 1..n |-> U16le(bytes, i + 2 * (k - 1))]

Min(a, b) == IF a < b THEN a ELSE b

Zeros(n) == [k \in 1..n |-> 0]

---------------------------------------------------------------------------
(* The reader (FatDirReader: Read + Seek over a directory's byte region).  *)
(* A stream is [bytes, ioErr]: ioErr says that the device fails with an    *)
(* I/O error where the region's bytes run out, instead of reporting EOF.   *)
(* Every result is passed on to the operator that continues the function,  *)
(* as the `?` operator and `match` do in the source.                       *)

\* how many of the n bytes asked for the region still holds at offset p
rdr_avail(s, p, n) == IF Len(s.bytes) <= p THEN 0 ELSE Min(n, Len(s.bytes) - p)

rdr_read_k(s, p, n, k) ==
    IF k < n /\ s.ioErr
    THEN [tag |-> "Err", err |-> "Other", pos |-> p]
    ELSE [tag |-> "Ok", got |-> SubSeq(s.bytes, p + 1, p + k), pos |-> p + k]

\* Read::read(buf) with buf of n bytes: Ok(k bytes, k <= n) or Err
rdr_read(s, p, n) == rdr_read_k(s, p, n, rdr_avail(s, p, n))

exact_or_eof(r, n) ==
    IF r.tag = "Err" THEN r
    ELSE IF Len(r.got) < n
    THEN [tag |-> "Err", err |-> "UnexpectedEof", pos |-> r.pos]
    ELSE r

\* a read that takes what is there for all n bytes, zero-filled
pad_short(r, n) ==
    IF r.tag = "Err" THEN r
    ELSE [tag |-> "Ok", got |-> r.got \o Zeros(n - Len(r.got)), pos |-> r.pos]
rdr_read_padded(s, p, n) == pad_short(rdr_read(s, p, n), n)

\* read_exact(n) as ReadBytesExt uses it: all n bytes or an error
rdr_read_exact(s, p, n) == exact_or_eof(rdr_read(s, p, n), n)

\* FatFileAttributes::from_bits: None when a bit outside the flags is set
from_bits_ok(b) == b < 64

\* FatFileAttributes::contains
contains(attrs, flag) == HasBit(attrs, flag)

\* lines 199-210: the fragment's fields from name and the bytes r3 read
decode_lfn(name, attrs, r3) ==
    IF r3.tag = "Err" THEN r3
    ELSE [tag |-> "Ok", pos |-> r3.pos,
          data |-> [type |-> "Lfn",
                    order |-> name[1],
                    name_0 |-> U16sLe(name, 2, 5),
                    attrs |-> attrs,
                    entry_type |-> r3.got[1],
                    checksum |-> r3.got[2],
                    name_1 |-> U16sLe(r3.got, 3, 6),
                    reserved_0 |-> U16le(r3.got, 15),
                    name_2 |-> U16sLe(r3.got, 17, 2)]]

\* lines 212-226: the Short Entry's fields from name and the bytes r3 read
decode_file(name, attrs, r3) ==
    IF r3.tag = "Err" THEN r3
    ELSE [tag |-> "Ok", pos |-> r3.pos,
          data |-> [type |-> "File",
                    name |-> name,
                    attrs |-> attrs,
                    reserved_0 |-> r3.got[1],
                    create_time_0 |-> r3.got[2],
                    create_time_1 |-> U16le(r3.got, 3),
                    create_date |-> U16le(r3.got, 5),
                    access_date |-> U16le(r3.got, 7),
                    first_cluster_hi |-> U16le(r3.got, 9),
                    modify_time |-> U16le(r3.got, 11),
                    modify_date |-> U16le(r3.got, 13),
                    first_cluster_lo |-> U16le(r3.got, 15),
                    size |-> U32le(r3.got, 17)]]

\* lines 197-198: the attribute byte r2, then the branch on LFN
decode_attrs(s, name, r2) ==
    IF r2.tag = "Err" THEN r2
    ELSE IF ~from_bits_ok(r2.got[1])
    THEN [tag |-> "Panic", err |-> "invalid attributes", pos |-> r2.pos]
    ELSE IF r2.got[1] = LFN
    THEN decode_lfn(name, r2.got[1], rdr_read_exact(s, r2.pos, LFN_REST))
    ELSE decode_file(name, r2.got[1], rdr_read_exact(s, r2.pos, FILE_REST))

\* lines 195-196: name is [0; 11] overwritten by what read() gave
decode_name(s, r1) ==
    IF r1.tag = "Err" THEN r1
    ELSE decode_attrs(s, r1.got \o Zeros(NAME_LEN - Len(r1.got)),
                      rdr_read_exact(s, r1.pos, 1))

\* FatDir::read_dir_entry_data: [tag, data, pos] or [tag, err, pos]
read_dir_entry_data(s, p) == decode_name(s, rdr_read(s, p, NAME_LEN))

---------------------------------------------------------------------------
(* Iterator for FatDir: next().  NextLoop is one pass of its `loop`, with  *)
(* the cursor p and the local lfn_buf threaded through; it gives [out, pos]*)
(* where out is [tag, val]: Some (an entry), SomeErr (an io::Error kind),  *)
(* None, or Panic.                                                         *)

\* a trim that drops nothing
lfn_keep_len(lfn_buf, lfn_len) == lfn_len

\* the inner loop that drops trailing 0 and 0xFFFF units: the final lfn_len
RECURSIVE lfn_trim_len(_, _)
lfn_trim_len(lfn_buf, lfn_len) ==
    IF lfn_len = 0 THEN 0
    ELSE IF lfn_buf[lfn_len] = 65535 \/ lfn_buf[lfn_len] = 0
    THEN lfn_trim_len(lfn_buf, lfn_len - 1)
    ELSE lfn_len

\* Vec::truncate
truncate(v, n) == IF n < Len(v) THEN SubSeq(v, 1, n) ELSE v

\* Vec::resize(n, 0) where it grows the buffer, else the buffer as it is
grow0(v, n) == IF Len(v) < n THEN v \o Zeros(n - Len(v)) ELSE v

\* the three clone_from_slice calls: part at [at, at+13) of buf
lfn_write(buf, at, part) ==
    [k \in 1..Len(buf) |->
        IF k > at /\ k <= at + LFN_PART_LEN THEN part[k - at] ELSE buf[k]]

\* a buffer that is appended to in arrival order, whatever the slot
lfn_put_append(lfn_buf, index, data) ==
    lfn_buf \o data.name_0 \o data.name_1 \o data.name_2

\* lines 314-322: grow the buffer to hold slot `index`, then write the chunk
lfn_put(lfn_buf, index, data) ==
    lfn_write(grow0(lfn_buf, LFN_PART_LEN * index + LFN_PART_LEN),
              LFN_PART_LEN * index,
              data.name_0 \o data.name_1 \o data.name_2)

\* a slot index taken as (order & 0x1F), without the - 1
lfn_index_no_dec(order, checks) == order % 32

\* (data.order & 0x1F) - 1 on u8: -1 stands for the overflow panic
lfn_index(order, checks) ==
    IF (order % 32) >= 1 THEN (order % 32) - 1
    ELSE IF checks THEN -1
    ELSE WrappingSub8(order % 32, 1)

\* an end check that tests for the deleted mark instead of 0x00
is_end_wrong_mark(data) == data.name[1] = DELETED_MARK

\* is this Short Entry the end-of-directory marker
is_end(data) == data.name[1] = 0

\* is this Short Entry deleted or a volume label
is_skipped(data) == data.name[1] = DELETED_MARK \/ contains(data.attrs, VOLUME_ID)

\* is this fragment deleted
is_deleted_lfn(data) == data.order = DELETED_MARK

\* a skip that leaves the buffer as it is
keep_entry_buf(lfn_buf) == lfn_buf

\* line 285: lfn_buf.clear() on a deleted or volume-label Short Entry
skip_entry_buf(lfn_buf) == <<>>

\* a tombstone that leaves the buffer as it is
keep_lfn_buf(lfn_buf) == lfn_buf

\* line 309: lfn_buf.clear() on a deleted fragment
skip_lfn_buf(lfn_buf) == <<>>

\* lines 288-304: trim the buffer and build the entry
emit(data, lfn_buf) ==
    [tag |-> "Some",
     val |-> [data |-> data,
              lfn |-> truncate(lfn_buf, lfn_trim_len(lfn_buf, Len(lfn_buf)))]]

RECURSIVE NextLoop(_, _, _, _)

\* lines 312-322, index being (order & 0x1F) - 1
step_lfn(s, p, lfn_buf, checks, data, index) ==
    IF index < 0
    THEN [out |-> [tag |-> "Panic", val |-> "attempt to subtract with overflow"],
          pos |-> p]
    ELSE NextLoop(s, p, lfn_put(lfn_buf, index, data), checks)

\* lines 273-324: what the loop does with the decoder's result r
step(s, lfn_buf, checks, r) ==
    CASE r.tag = "Err" -> [out |-> [tag |-> "SomeErr", val |-> r.err], pos |-> r.pos]
      [] r.tag = "Panic" -> [out |-> [tag |-> "Panic", val |-> r.err], pos |-> r.pos]
      [] r.tag = "Ok" /\ r.data.type = "File" ->
            IF is_end(r.data) THEN [out |-> [tag |-> "None", val |-> ""], pos |-> r.pos]
            ELSE IF is_skipped(r.data)
            THEN NextLoop(s, r.pos, skip_entry_buf(lfn_buf), checks)
            ELSE [out |-> emit(r.data, lfn_buf), pos |-> r.pos]
      [] OTHER ->
            IF is_deleted_lfn(r.data)
            THEN NextLoop(s, r.pos, skip_lfn_buf(lfn_buf), checks)
            ELSE step_lfn(s, r.pos, lfn_buf, checks, r.data,
                          lfn_index(r.data.order, checks))

NextLoop(s, p, lfn_buf, checks) == step(s, lfn_buf, checks, read_dir_entry_data(s, p))

\* Iterator::next: a fresh lfn_buf, then the loop
next(s, p, checks) == NextLoop(s, p, <<>>, checks)

\* a rewind that leaves the cursor where it is
rewind_noop(p) == p

\* FatDir::rewind: seek(SeekFrom::Start(0))
rewind(p) == 0

RECURSIVE Collect(_, _, _, _)

\* self.map(|x| x.unwrap()).collect(): what collect does with next()'s result
collect_item(s, acc, checks, r) ==
    CASE r.out.tag = "Some" -> Collect(s, r.pos, Append(acc, r.out.val), checks)
      [] r.out.tag = "None" -> [out |-> [tag |-> "Ok", val |-> acc], pos |-> r.pos]
      [] r.out.tag = "SomeErr" ->
            [out |-> [tag |-> "Panic", val |-> "called Result::unwrap on an Err value"],
             pos |-> r.pos]
      [] OTHER -> r

Collect(s, p, acc, checks) == collect_item(s, acc, checks, next(s, p, checks))

\* FatDir::list
list(s, p, checks) == Collect(s, rewind(p), <<>>, checks)

---------------------------------------------------------------------------
(* FatDirEntry.  A String / &str is the sequence of its Unicode scalar     *)
(* values; short names are ASCII, so from_utf8 keeps each byte as a char.  *)

\* char::is_whitespace on the ASCII range (what trim_right removes)
is_whitespace(c) == c = 32 \/ (c >= 9 /\ c <= 13)

RECURSIVE trim_right(_)
trim_right(str) ==
    IF str = <<>> THEN str
    ELSE IF is_whitespace(str[Len(str)]) THEN trim_right(SubSeq(str, 1, Len(str) - 1))
    ELSE str

join_name_ext(name, ext) == IF ext = <<>> THEN name ELSE name \o <<46>> \o ext

\* FatDirEntry::short_file_name
short_file_name(e) ==
    join_name_ext(trim_right(SubSeq(e.data.name, 1, 8)),
                  trim_right(SubSeq(e.data.name, 9, 11)))

is_high_surrogate(u) == u >= 55296 /\ u <= 56319
is_low_surrogate(u) == u >= 56320 /\ u <= 57343

utf16_cons(c, rest) == [ok |-> rest.ok, str |-> <<c>> \o rest.str]

\* decoding from the first unit on, one char per unit or surrogate pair
RECURSIVE decode_utf16(_)
decode_utf16(v) ==
    IF v = <<>> THEN [ok |-> TRUE, str |-> <<>>]
    ELSE IF is_high_surrogate(v[1])
    THEN IF Len(v) >= 2 /\ is_low_surrogate(v[2])
         THEN utf16_cons(65536 + (v[1] - 55296) * 1024 + (v[2] - 56320),
                         decode_utf16(SubSeq(v, 3, Len(v))))
         ELSE [ok |-> FALSE, str |-> <<>>]
    ELSE IF is_low_surrogate(v[1])
    THEN [ok |-> FALSE, str |-> <<>>]
    ELSE utf16_cons(v[1], decode_utf16(Tail(v)))

\* String::from_utf16: [ok, str]; ok is FALSE on an unpaired surrogate.
\* Units outside the surrogate range are chars as they stand.
from_utf16(v) ==
    IF \E k \in 1..Len(v) : is_high_surrogate(v[k]) \/ is_low_surrogate(v[k])
    THEN decode_utf16(v)
    ELSE [ok |-> TRUE, str |-> v]

unwrap_utf16(r) ==
    IF r.ok THEN [tag |-> "Ok", val |-> r.str]
    ELSE [tag |-> "Panic", val |-> "called Result::unwrap on an Err value"]

\* FatDirEntry::file_name: Ok(String), or the panic of from_utf16(..).unwrap()
file_name(e) ==
    IF Len(e.lfn) > 0 THEN unwrap_utf16(from_utf16(e.lfn))
    ELSE [tag |-> "Ok", val |-> short_file_name(e)]

\* FatDirEntry::is_dir
is_dir(e) == contains(e.data.attrs, DIRECTORY)

\* FatDirEntry::is_file
is_file(e) == ~is_dir(e)

\* FatDirEntry::first_cluster
first_cluster(e) == e.data.first_cluster_hi * 65536 + e.data.first_cluster_lo

\* FatDirEntry::to_file: a FatFile handle, or the panic
to_file(e) ==
    IF is_dir(e) THEN [tag |-> "Panic", val |-> "This is a directory"]
    ELSE [tag |-> "Ok",
          val |-> [kind |-> "FatFile", cluster |-> first_cluster(e), size |-> e.data.size]]

\* FatDirEntry::to_dir: a FatDir handle positioned at 0, or the panic
to_dir(e) ==
    IF ~is_dir(e) THEN [tag |-> "Panic", val |-> "This is a file"]
    ELSE [tag |-> "Ok",
          val |-> [kind |-> "FatDir", cluster |-> first_cluster(e), size |-> 0]]

\* the calendar chrono checks dates against
is_leap_year(year) == (year % 4 = 0 /\ year % 100 # 0) \/ year % 400 = 0

days_in_month(year, month) ==
    IF month = 2 THEN (IF is_leap_year(year) THEN 29 ELSE 28)
    ELSE IF month \in {4, 6, 9, 11} THEN 30
    ELSE 31

\* Local.ymd(year, month, day): the date, or the panic of its unwrap on a
\* month or day that the calendar does not have
ymd(year, month, day) ==
    IF month \in 1..12 /\ day \in 1..days_in_month(year, month)
    THEN [tag |-> "Ok", val |-> [year |-> year, month |-> month, day |-> day]]
    ELSE [tag |-> "Panic", val |-> "No such local time"]

\* Date::and_hms(hour, min, sec) on the outcome date of ymd: the date-time,
\* or the panic of its expect on a time of day that does not exist
and_hms(date, hour, min, sec) ==
    IF date.tag = "Panic" THEN date
    ELSE IF hour <= 23 /\ min <= 59 /\ sec <= 59
    THEN [tag |-> "Ok",
          val |-> [year |-> date.val.year, month |-> date.val.month,
                   day |-> date.val.day, hour |-> hour, min |-> min, sec |-> sec]]
    ELSE [tag |-> "Panic", val |-> "invalid time"]

\* FatDirEntry::convert_date: (dos_date >> 9) + 1980, (dos_date >> 5) & 0xF,
\* dos_date & 0x1F
convert_date(dos_date) ==
    ymd((dos_date \div 512) + 1980, (dos_date \div 32) % 16, dos_date % 32)

\* FatDirEntry::convert_date_time: dos_time >> 11, (dos_time >> 5) & 0x3F,
\* (dos_time & 0x1F) * 2
convert_date_time(dos_date, dos_time) ==
    and_hms(convert_date(dos_date),
            dos_time \div 2048, (dos_time \div 32) % 64, (dos_time % 32) * 2)

\* FatDirEntry::created
created(e) == convert_date_time(e.data.create_date, e.data.create_time_1)

\* FatDirEntry::accessed
accessed(e) == convert_date(e.data.access_date)

\* FatDirEntry::modified
modified(e) == convert_date_time(e.data.modify_date, e.data.modify_time)

---------------------------------------------------------------------------
(* The path resolver. *)

\* a lowercase that also folds the Latin-1 capitals U+00C0..U+00DE
to_lowercase_latin1(c) ==
    IF (c >= 65 /\ c <= 90) \/ (c >= 192 /\ c <= 222) THEN c + 32 ELSE c

\* u8::to_ascii_lowercase per char
to_ascii_lowercase(c) == IF c >= 65 /\ c <= 90 THEN c + 32 ELSE c

\* str::eq_ignore_ascii_case
eq_ignore_ascii_case(a, b) ==
    /\ Len(a) = Len(b)
    /\ \A k \in 1..Len(a) : to_ascii_lowercase(a[k]) = to_ascii_lowercase(b[k])

\* a trim of the trailing slashes alone, as str::trim_end_matches('/')
RECURSIVE trim_end_matches(_)
trim_end_matches(str) ==
    IF str = <<>> THEN str
    ELSE IF str[Len(str)] = SLASH THEN trim_end_matches(SubSeq(str, 1, Len(str) - 1))
    ELSE str

\* a trim of the leading slashes alone, as str::trim_start_matches('/')
RECURSIVE trim_start_matches(_)
trim_start_matches(str) ==
    IF str = <<>> THEN str
    ELSE IF str[1] = SLASH THEN trim_start_matches(Tail(str))
    ELSE str

\* str::trim_matches('/')
RECURSIVE trim_matches(_)
trim_matches(str) ==
    IF str = <<>> THEN str
    ELSE IF str[1] = SLASH THEN trim_matches(Tail(str))
    ELSE IF str[Len(str)] = SLASH THEN trim_matches(SubSeq(str, 1, Len(str) - 1))
    ELSE str

\* index of the first '/' of str, 0 when there is none
first_slash(str) ==
    IF \E k \in 1..Len(str) : str[k] = SLASH
    THEN CHOOSE k \in 1..Len(str) :
            str[k] = SLASH /\ \A j \in 1..(k - 1) : str[j] # SLASH
    ELSE 0

\* splitn(2, "/") of the trimmed path t whose first '/' is at k
splitn2(t, k) ==
    IF k = 0 THEN [comp |-> t, has_rest |-> FALSE, rest |-> <<>>]
    ELSE [comp |-> SubSeq(t, 1, k - 1), has_rest |-> TRUE,
          rest |-> SubSeq(t, k + 1, Len(t))]

split_trimmed(t) == splitn2(t, first_slash(t))

\* FatDir::split_path: [comp, has_rest, rest]
split_path(path) == split_trimmed(trim_matches(path))

\* the byte region a FatDir over first cluster c reads
stream_of(d, c) == IF c \in DOMAIN d THEN d[c] ELSE [bytes |-> <<>>, ioErr |-> FALSE]

RECURSIVE find_in(_, _, _)

\* one pass of the `for e in entries` loop, fname being e.file_name()
find_match(entries, i, name, fname) ==
    IF fname.tag = "Panic" THEN fname
    ELSE IF eq_ignore_ascii_case(fname.val, name) THEN [tag |-> "Ok", val |-> entries[i]]
    ELSE find_in(entries, i + 1, name)

\* the `for e in entries` loop of find_entry, from entry i on
find_in(entries, i, name) ==
    IF i > Len(entries) THEN [tag |-> "Err", val |-> "NotFound"]
    ELSE find_match(entries, i, name, file_name(entries[i]))

\* find_entry once self.list() has given l
find_listed(name, l) ==
    IF l.out.tag # "Ok" THEN l
    ELSE [out |-> find_in(l.out.val, 1, name), pos |-> l.pos]

\* FatDir::find_entry on the directory at cluster c with cursor p: [out, pos]
find_entry(d, c, p, name, checks) == find_listed(name, list(stream_of(d, c), p, checks))

RECURSIVE open_dir(_, _, _, _, _)

\* line 251: e.to_dir().open_dir(rest), sub being e.to_dir()
open_dir_rest(d, rest, checks, sub) ==
    IF sub.tag = "Panic" THEN sub
    ELSE open_dir(d, sub.val.cluster, 0, rest, checks).out

\* lines 249-253: find_entry's result f, then the match on rest_opt
open_dir_found(d, sp, checks, f) ==
    IF f.out.tag # "Ok" THEN f
    ELSE IF sp.has_rest
    THEN [out |-> open_dir_rest(d, sp.rest, checks, to_dir(f.out.val)), pos |-> f.pos]
    ELSE [out |-> to_dir(f.out.val), pos |-> f.pos]

open_dir_split(d, c, p, sp, checks) ==
    open_dir_found(d, sp, checks, find_entry(d, c, p, sp.comp, checks))

\* FatDir::open_dir: [out, pos], pos the cursor of the directory it is called on
open_dir(d, c, p, path, checks) == open_dir_split(d, c, p, split_path(path), checks)

RECURSIVE open_file(_, _, _, _, _)

\* line 260: e.to_dir().open_file(rest), sub being e.to_dir()
open_file_rest(d, rest, checks, sub) ==
    IF sub.tag = "Panic" THEN sub
    ELSE open_file(d, sub.val.cluster, 0, rest, checks).out

\* lines 258-262: find_entry's result f, then the match on rest_opt
open_file_found(d, sp, checks, f) ==
    IF f.out.tag # "Ok" THEN f
    ELSE IF sp.has_rest
    THEN [out |-> open_file_rest(d, sp.rest, checks, to_dir(f.out.val)), pos |-> f.pos]
    ELSE [out |-> to_file(f.out.val), pos |-> f.pos]

open_file_split(d, c, p, sp, checks) ==
    open_file_found(d, sp, checks, find_entry(d, c, p, sp.comp, checks))

\* FatDir::open_file
open_file(d, c, p, path, checks) == open_file_split(d, c, p, split_path(path), checks)

---------------------------------------------------------------------------
(* Volumes the model reads.  Records are laid out byte for byte as the     *)
(* decoder reads them (FatDirFileEntryData, FatDirLfnEntryData).           *)

Le16(v) == <<v % 256, v \div 256>>

Le32(v) == Le16(v % 65536) \o Le16(v \div 65536)

RECURSIVE Le16s(_)
Le16s(units) == IF units = <<>> THEN <<>> ELSE Le16(units[1]) \o Le16s(Tail(units))

\* a Short Entry record: 11 name bytes, attributes, dates, cluster, size
ShortRec(name, attrs, date, cluster, size) ==
    name \o <<attrs, 0, 0>> \o Le16(0) \o Le16(date) \o Le16(date)
         \o Le16(cluster \div 65536) \o Le16(0) \o Le16(date)
         \o Le16(cluster % 65536) \o Le32(size)

\* an LFN Fragment record: order byte and 13 code units in 5 + 6 + 2
LfnRec(order, units) ==
    <<order>> \o Le16s(SubSeq(units, 1, 5)) \o <<LFN, 0, 0>>
              \o Le16s(SubSeq(units, 6, 11)) \o Le16(0) \o Le16s(SubSeq(units, 12, 13))

\* a name chunk: the units, then a 0x0000 terminator and 0xFFFF fill to 13
Padded(units) ==
    IF Len(units) >= LFN_PART_LEN THEN units
    ELSE units \o <<0>> \o [k \in 1..(LFN_PART_LEN - Len(units) - 1) |-> 65535]

\* "REPORT  TXT"
NameReport == <<82, 69, 80, 79, 82, 84, 32, 32, 84, 88, 84>>
\* "DOCS       "
NameDocs == <<68, 79, 67, 83, 32, 32, 32, 32, 32, 32, 32>>
\* "VOLUME     "
NameVolume == <<86, 79, 76, 85, 77, 69, 32, 32, 32, 32, 32>>
\* "REPORT~1TXT"
NameReport1 == <<82, 69, 80, 79, 82, 84, 126, 49, 84, 88, 84>>
\* "SUB        "
NameSub == <<83, 85, 66, 32, 32, 32, 32, 32, 32, 32, 32>>

\* first clusters of the volume: the root region, two directories, two files
RootCluster == 0
DocsCluster == 3
SubCluster == 4
FileCluster == 5
File2Cluster == 6
\* 1980-01-01 packed as a DOS date
Date1980 == 33

RecEnd == Zeros(NAME_LEN + 1 + FILE_REST)
RecDeleted == ShortRec(<<DELETED_MARK>> \o Tail(NameReport), ARCHIVE, Date1980, FileCluster, 7)
RecVolume == ShortRec(NameVolume, VOLUME_ID, Date1980, 0, 0)
RecFile == ShortRec(NameReport, ARCHIVE, Date1980, FileCluster, 1000)
RecDir == ShortRec(NameDocs, DIRECTORY, Date1980, DocsCluster, 0)
\* slot 1 of "Report-2024-final.txt"
RecLfn1 == LfnRec(1, <<82, 101, 112, 111, 114, 116, 45, 50, 48, 50, 52, 45, 102>>)
\* slot 2 of it, flagged last (0x40)
RecLfn2 == LfnRec(66, Padded(<<105, 110, 97, 108, 46, 116, 120, 116>>))
\* the single slot of "Docs", flagged last
RecLfnDocs == LfnRec(65, Padded(<<68, 111, 99, 115>>))
\* a deleted fragment
RecLfnDeleted == LfnRec(DELETED_MARK, Padded(<<79, 108, 100>>))

\* the records a generated root directory is made of
Menu ==
    <<RecEnd, RecDeleted, RecVolume, RecFile, RecDir,
      RecLfn1, RecLfn2, RecLfnDocs, RecLfnDeleted>>

RECURSIVE Flatten(_)
Flatten(recs) == IF recs = <<>> THEN <<>> ELSE recs[1] \o Flatten(Tail(recs))

\* every sequence of at most n menu indices
RECURSIVE IndexSeqs(_)
IndexSeqs(n) ==
    IF n = 0 THEN {<<>>}
    ELSE LET shorter == IndexSeqs(n - 1)
         IN  shorter \cup {Append(q, i) : q \in {x \in shorter : Len(x) = n - 1},
                                          i \in 1..Len(Menu)}

\* every stream of at most MaxRecs menu records, ending in EOF or an I/O error
GeneratedStreams ==
    {[bytes |-> Flatten([k \in 1..Len(q) |-> Menu[q[k]]]), ioErr |-> io] :
        q \in IndexSeqs(MaxRecs), io \in BOOLEAN}

\* slots 2 and 3 of "Report-2024-final-version2.txt" (slot 1 is RecLfn1)
RecLfnB2 == LfnRec(2, <<105, 110, 97, 108, 45, 118, 101, 114, 115, 105, 111, 110, 50>>)
RecLfnB3 == LfnRec(67, Padded(<<46, 116, 120, 116>>))
\* a fragment whose order byte has no slot bits (0x40: "last", slot 0)
RecLfnSlot0 == LfnRec(64, Padded(<<78, 111, 83, 108, 111, 116>>))
\* a one-unit long name U+00E9, and one that is an unpaired surrogate
RecLfnEacute == LfnRec(65, Padded(<<233>>))
RecLfnSurrogate == LfnRec(65, Padded(<<55296>>))
\* Short Entries whose attribute byte has a bit outside the flags (0x40, 0x80)
RecAttr40 == ShortRec(NameReport, 64 + ARCHIVE, Date1980, FileCluster, 1000)
RecAttr80 == ShortRec(NameDocs, 128 + DIRECTORY, Date1980, DocsCluster, 0)

\* longer directories: names in forward and reverse slot order, records after
\* the end marker, skipped records between fragments and entries, equal
\* display names, a stream cut in the middle of a record
LongerDirs ==
    {<<RecLfn2, RecLfn1, RecFile, RecDir, RecEnd>>,
     <<RecLfn1, RecLfn2, RecFile, RecEnd, RecDir>>,
     <<RecLfnB3, RecLfnB2, RecLfn1, RecFile, RecEnd>>,
     <<RecLfn1, RecLfnDocs, RecFile, RecEnd>>,
     <<RecLfn2, RecDeleted, RecLfnDocs, RecDir, RecEnd>>,
     <<RecLfnDocs, RecVolume, RecFile, RecEnd>>,
     <<RecLfn1, RecLfnDeleted, RecLfnDocs, RecDir, RecEnd>>,
     <<RecLfnDocs, RecLfnDeleted, RecFile, RecDir, RecEnd>>,
     <<RecLfnDocs, RecFile, RecDir, RecEnd>>,
     <<RecLfnEacute, RecFile, RecDir, RecEnd>>,
     <<RecLfnSurrogate, RecFile, RecDir, RecEnd>>,
     <<RecDir, RecFile, RecEnd>>,
     <<RecFile, RecLfnSlot0, RecDir, RecEnd>>,
     <<RecFile, RecAttr40, RecDir, RecEnd>>,
     <<RecAttr80, RecFile, RecEnd>>,
     <<RecFile, SubSeq(RecDir, 1, 16)>>}

LongerStreams == {[bytes |-> Flatten(q), ioErr |-> io] : q \in LongerDirs, io \in BOOLEAN}

RootStreams == GeneratedStreams \cup LongerStreams

\* the directory "Docs": Report.txt (long name), SUB (a directory), end
DocsStream ==
    [bytes |-> LfnRec(65, Padded(<<82, 101, 112, 111, 114, 116, 46, 116, 120, 116>>))
                 \o ShortRec(NameReport1, ARCHIVE, Date1980, File2Cluster, 42)
                 \o ShortRec(NameSub, DIRECTORY, Date1980, SubCluster, 0)
                 \o RecEnd,
     ioErr |-> FALSE]

\* the empty directory "Docs/SUB"
SubStream == [bytes |-> RecEnd, ioErr |-> FALSE]

Volume(root) ==
    [c \in {RootCluster, DocsCluster, SubCluster} |->
        IF c = RootCluster THEN root
        ELSE IF c = DocsCluster THEN DocsStream ELSE SubStream]

\* the paths the callers open: "DOCS/report.TXT", "docs/missing.txt", "report.txt", "/Docs/",
\* "REPORT-2024-FINAL.TXT", "report.txt/x", "docs//report.txt", "docs/sub", U+00C9, U+00E9
Paths ==
    {<<68, 79, 67, 83, 47, 114, 101, 112, 111, 114, 116, 46, 84, 88, 84>>,
     <<100, 111, 99, 115, 47, 109, 105, 115, 115, 105, 110, 103, 46, 116, 120, 116>>,
     <<114, 101, 112, 111, 114, 116, 46, 116, 120, 116>>,
     <<47, 68, 111, 99, 115, 47>>,
     <<82, 69, 80, 79, 82, 84, 45, 50, 48, 50, 52, 45, 70, 73, 78, 65, 76, 46, 84, 88, 84>>,
     <<114, 101, 112, 111, 114, 116, 46, 116, 120, 116, 47, 120>>,
     <<100, 111, 99, 115, 47, 47, 114, 101, 112, 111, 114, 116, 46, 116, 120, 116>>,
     <<100, 111, 99, 115, 47, 115, 117, 98>>,
     <<201>>, <<233>>}

---------------------------------------------------------------------------
(* The state machine: the operations of the root FatDir. *)

Unit == [tag |-> "Unit", val |-> ""]

\* how the state keeps a call without a parameter, and an outcome o of the
\* operation name
NoParam == [none |-> TRUE]
Kept(name, o) ==
    [tag |-> o.tag,
     val |-> IF o.tag = "Ok" /\ name = "list" THEN [entries |-> o.val]
             ELSE IF o.tag \in {"Ok", "Some"} THEN o.val
             ELSE [msg |-> o.val]]

\* the whole records of a stream, and the bytes of its i-th record
NumRecs(s) == Len(s.bytes) \div (NAME_LEN + 1 + FILE_REST)
RecBytes(s, i) ==
    SubSeq(s.bytes, (i - 1) * (NAME_LEN + 1 + FILE_REST) + 1, i * (NAME_LEN + 1 + FILE_REST))
RecAttr(s, i) == RecBytes(s, i)[NAME_LEN + 1]
RecIsLfn(s, i) == RecAttr(s, i) = LFN
RecFirst(s, i) == RecBytes(s, i)[1]

\* does the stream hold a live fragment whose slot bits are all zero
HasSlot0(s) ==
    \E i \in 1..NumRecs(s) :
        RecIsLfn(s, i) /\ RecFirst(s, i) # DELETED_MARK /\ RecFirst(s, i) % 32 = 0

\* The build shows only in the subtraction of line 313, which overflows only
\* on a fragment without slot bits: for a volume that holds none, both builds
\* behave alike and the build without overflow checks stands for both.
Builds(d) == IF \E c \in DOMAIN d : HasSlot0(d[c]) THEN BOOLEAN ELSE {FALSE}

Init ==
    /\ disk \in {Volume(r) : r \in RootStreams}
    /\ pos = 0
    /\ op = "new"
    /\ param = NoParam
    /\ out = Kept("new", Unit)
    /\ firstList = [tag |-> "NoList", val |-> Kept("new", Unit), from |-> 0]
    /\ alive = TRUE
    /\ overflow_checks \in Builds(disk)

root == disk[RootCluster]

\* an operation returns r = [out, pos] to the caller, or unwinds
Returns(name, arg, r) ==
    /\ pos' = r.pos
    /\ op' = name
    /\ param' = arg
    /\ out' = Kept(name, r.out)
    /\ alive' = (r.out.tag # "Panic")

\* FatDir::rewind
Rewind ==
    /\ alive
    /\ Returns("rewind", NoParam, [out |-> Unit, pos |-> rewind(pos)])
    /\ UNCHANGED <<disk, firstList, overflow_checks>>

\* Iterator::next
Next_ ==
    /\ alive
    /\ Returns("next", NoParam, next(root, pos, overflow_checks))
    /\ UNCHANGED <<disk, firstList, overflow_checks>>

\* FatDir::list
List ==
    /\ alive
    /\ Returns("list", NoParam, list(root, pos, overflow_checks))
    /\ firstList' = IF firstList.tag = "NoList"
                    THEN [tag |-> "Once", val |-> out', from |-> pos]
                    ELSE [tag |-> "Again", val |-> firstList.val, from |-> pos]
    /\ UNCHANGED <<disk, overflow_checks>>

\* FatDir::open_dir
OpenDir ==
    /\ alive
    /\ \E path \in Paths :
         Returns("open_dir", [path |-> path], open_dir(disk, RootCluster, pos, path, overflow_checks))
    /\ UNCHANGED <<disk, firstList, overflow_checks>>

\* FatDir::open_file
OpenFile ==
    /\ alive
    /\ \E path \in Paths :
         Returns("open_file", [path |-> path], open_file(disk, RootCluster, pos, path, overflow_checks))
    /\ UNCHANGED <<disk, firstList, overflow_checks>>

\* the entries the caller holds after the last operation
HeldEntries ==
    IF res.op = "next" /\ res.out.tag = "Some" THEN {res.out.val}
    ELSE IF res.op = "list" /\ res.out.tag = "Ok"
    THEN {res.out.val[k] : k \in 1..Len(res.out.val)}
    ELSE {}

\* FatDirEntry::to_file on an entry the caller holds
ToFile ==
    /\ alive
    /\ \E e \in HeldEntries : Returns("to_file", e, [out |-> to_file(e), pos |-> pos])
    /\ UNCHANGED <<disk, firstList, overflow_checks>>

\* FatDirEntry::to_dir on an entry the caller holds
ToDir ==
    /\ alive
    /\ \E e \in HeldEntries : Returns("to_dir", e, [out |-> to_dir(e), pos |-> pos])
    /\ UNCHANGED <<disk, firstList, overflow_checks>>

Next == Rewind \/ Next_ \/ List \/ OpenDir \/ OpenFile \/ ToFile \/ ToDir

Spec == Init /\ [][Next]_vars

---------------------------------------------------------------------------
(* Reading a stream from its bytes, record by record: what the properties  *)
(* below compare the operations' results with.                             *)

RecSize == NAME_LEN + 1 + FILE_REST
RecName(s, i) == SubSeq(RecBytes(s, i), 1, NAME_LEN)
RecIsEnd(s, i) == ~RecIsLfn(s, i) /\ RecFirst(s, i) = 0
RecIsSkipped(s, i) ==
    /\ ~RecIsLfn(s, i)
    /\ RecFirst(s, i) = DELETED_MARK \/ HasBit(RecAttr(s, i), VOLUME_ID)
RecIsEntry(s, i) == ~RecIsLfn(s, i) /\ ~RecIsEnd(s, i) /\ ~RecIsSkipped(s, i)
RecIsTombstone(s, i) == RecIsLfn(s, i) /\ RecFirst(s, i) = DELETED_MARK
RecSlot(s, i) == RecFirst(s, i) % 32
\* the 13 code units of fragment i, from offsets 1, 14 and 28 of the record
RecUnits(s, i) ==
    U16sLe(RecBytes(s, i), 2, 5) \o U16sLe(RecBytes(s, i), 15, 6)
        \o U16sLe(RecBytes(s, i), 29, 2)

HasEnd(s) == \E i \in 1..NumRecs(s) : RecIsEnd(s, i)
\* the first end marker (NumRecs + 1 when there is none)
FirstEnd(s) ==
    IF HasEnd(s)
    THEN CHOOSE i \in 1..NumRecs(s) :
            RecIsEnd(s, i) /\ \A j \in 1..(i - 1) : ~RecIsEnd(s, j)
    ELSE NumRecs(s) + 1

\* record i makes the decoder or the slot arithmetic panic in this build
RecFaults(s, i, checks) ==
    \/ RecAttr(s, i) >= 64
    \/ checks /\ RecIsLfn(s, i) /\ ~RecIsTombstone(s, i) /\ RecSlot(s, i) = 0

\* the fragments that immediately precede record i
Run(s, i) == {j \in 1..(i - 1) : \A m \in j..(i - 1) : RecIsLfn(s, m)}

\* the run before record i is live fragments with slots exactly 1..n
RunIsName(s, i) ==
    /\ \A j \in Run(s, i) : ~RecIsTombstone(s, j)
    /\ \A j \in Run(s, i) : RecSlot(s, j) \in 1..Cardinality(Run(s, i))
    /\ \A j, m \in Run(s, i) : j # m => RecSlot(s, j) # RecSlot(s, m)

\* a well-formed mix of Short Entries and fragments, ended by an end marker
WellFormed(s) ==
    /\ HasEnd(s)
    /\ \A i \in 1..(FirstEnd(s) - 1) :
          /\ RecAttr(s, i) < 64
          /\ RecIsLfn(s, i) => ~RecIsEnd(s, i + 1)
          /\ ~RecIsLfn(s, i) => RunIsName(s, i)

\* the records list() has to emit, and the m-th of them
EntryIdx(s) == {i \in 1..(FirstEnd(s) - 1) : RecIsEntry(s, i)}
NthOf(S, m) == CHOOSE i \in S : Cardinality({j \in S : j < i}) = m - 1

\* the chunks of the run before record i, concatenated by slot index
FragOfSlot(s, i, n) == CHOOSE j \in Run(s, i) : RecSlot(s, j) = n
Cat(s, i) ==
    [u \in 1..(LFN_PART_LEN * Cardinality(Run(s, i))) |->
        RecUnits(s, FragOfSlot(s, i, ((u - 1) \div LFN_PART_LEN) + 1))
            [((u - 1) % LFN_PART_LEN) + 1]]

IsPadding(u) == u = 0 \/ u = 65535

\* l is cat without its trailing padding units
IsTrimOf(l, cat) ==
    /\ Len(l) <= Len(cat)
    /\ \A u \in 1..Len(l) : l[u] = cat[u]
    /\ \A u \in (Len(l) + 1)..Len(cat) : IsPadding(cat[u])
    /\ Len(l) > 0 => ~IsPadding(l[Len(l)])

ListedOk == res.op = "list" /\ res.out.tag = "Ok"

\* C1: for a well-formed directory stream list() returns one entry per
\* non-deleted, non-VOLUME_ID Short Entry before the end marker, in on-disk
\* order, each with that record's short name and attributes and, as long
\* name, the chunks of the fragments right before it concatenated by slot
\* index (the name of spec section 3: without its trailing padding).
C1_ListWellFormed ==
    (res.op = "list" /\ WellFormed(root)) =>
        /\ res.out.tag = "Ok"
        /\ Len(res.out.val) = Cardinality(EntryIdx(root))
        /\ \A m \in 1..Len(res.out.val) :
              /\ res.out.val[m].data.name = RecName(root, NthOf(EntryIdx(root), m))
              /\ res.out.val[m].data.attrs = RecAttr(root, NthOf(EntryIdx(root), m))
              /\ IsTrimOf(res.out.val[m].lfn, Cat(root, NthOf(EntryIdx(root), m)))

\* a well-formed directory listed with two entries, one under a long name
\* of more than one fragment
C1_Witness ==
    /\ ListedOk /\ WellFormed(root)
    /\ Len(res.out.val) >= 2
    /\ \E m \in 1..Len(res.out.val) : Len(res.out.val[m].lfn) > LFN_PART_LEN

\* the stream with the records of R rearranged by f
Permuted(s, R, f) ==
    [bytes |-> Flatten([j \in 1..NumRecs(s) |->
                           IF j \in R THEN RecBytes(s, f[j]) ELSE RecBytes(s, j)])
                 \o SubSeq(s.bytes, NumRecs(s) * RecSize + 1, Len(s.bytes)),
     ioErr |-> s.ioErr]

Perms(R) == {f \in [R -> R] : \A a, b \in R : a # b => f[a] # f[b]}

\* the Short Entries that follow a name of two or more fragments
NamedByRun(s) ==
    {i \in 1..NumRecs(s) :
        ~RecIsLfn(s, i) /\ Cardinality(Run(s, i)) >= 2 /\ RunIsName(s, i)}

\* C2: the long name does not depend on the order the fragments arrive in:
\* for live fragments with distinct slots 1..n, n >= 2, before a Short
\* Entry, every permutation of them gives the list() the directory gives.
C2_OrderIndependent ==
    res.op = "list" =>
        \A i \in NamedByRun(root) : \A f \in Perms(Run(root, i)) :
            list(Permuted(root, Run(root, i), f), 0, overflow_checks).out = res.out

\* a listed name of two fragments stored in reverse slot order
C2_Witness ==
    /\ ListedOk
    /\ \E i \in NamedByRun(root) :
          /\ RecSlot(root, i - 2) > RecSlot(root, i - 1)
          /\ \E m \in 1..Len(res.out.val) : IsTrimOf(res.out.val[m].lfn, Cat(root, i))
                                            /\ Len(res.out.val[m].lfn) > LFN_PART_LEN

\* the stream cut after its record k, failing on any read past it
UpTo(s, k) == [bytes |-> SubSeq(s.bytes, 1, k * RecSize), ioErr |-> TRUE]

\* C3: list() returns successfully at the first Short Entry whose first name
\* byte is 0x00, whatever follows it: the result is that of the stream cut
\* after the marker, and the cursor stops right behind the marker.
C3_StopsAtEndMarker ==
    (/\ res.op = "list"
     /\ HasEnd(root)
     /\ \A i \in 1..FirstEnd(root) : ~RecFaults(root, i, overflow_checks)) =>
        /\ res.out.tag = "Ok"
        /\ pos = FirstEnd(root) * RecSize
        /\ res.out = list(UpTo(root, FirstEnd(root)), 0, overflow_checks).out
        /\ Len(res.out.val) = Cardinality(EntryIdx(root))

\* a listing of a directory that stores an entry behind its end marker
C3_Witness ==
    /\ ListedOk
    /\ FirstEnd(root) < NumRecs(root)
    /\ RecIsEntry(root, FirstEnd(root) + 1)
    /\ Len(res.out.val) >= 1

\* the records before i closed by an end marker, and the records after i
Before(s, i) == [bytes |-> SubSeq(s.bytes, 1, (i - 1) * RecSize) \o RecEnd, ioErr |-> FALSE]
After(s, i) == [bytes |-> SubSeq(s.bytes, i * RecSize + 1, Len(s.bytes)), ioErr |-> s.ioErr]

\* list() across record i is list() before it followed by list() after it
CutAt(i) ==
    res.out.val = list(Before(root, i), 0, overflow_checks).out.val
                    \o list(After(root, i), 0, overflow_checks).out.val

EntriesSeen ==
    IF res.op = "list" /\ res.out.tag = "Ok" THEN res.out.val
    ELSE IF res.op = "next" /\ res.out.tag = "Some" THEN <<res.out.val>>
    ELSE <<>>

\* C4: a Short Entry that is deleted (0xE5) or has VOLUME_ID never shows in
\* what list() or next() give, and the fragments before it are dropped: the
\* entries behind it are those of the records behind it alone.
C4_SkippedEntries ==
    /\ \A m \in 1..Len(EntriesSeen) :
          /\ EntriesSeen[m].data.name[1] # DELETED_MARK
          /\ ~HasBit(EntriesSeen[m].data.attrs, VOLUME_ID)
    /\ ListedOk =>
          \A i \in 1..(FirstEnd(root) - 1) : RecIsSkipped(root, i) => CutAt(i)

\* a listing across fragments, a skipped Short Entry, and a later entry
C4_Witness ==
    /\ ListedOk
    /\ \E i \in 2..(FirstEnd(root) - 1) :
          /\ RecIsSkipped(root, i)
          /\ RecIsLfn(root, i - 1) /\ ~RecIsTombstone(root, i - 1)
          /\ \E j \in (i + 1)..(FirstEnd(root) - 1) : RecIsEntry(root, j)

\* C5: a fragment with order byte 0xE5 drops what was accumulated: a Short
\* Entry right behind it is listed with no long name, and the entries behind
\* the tombstone are those of the records behind it alone.
C5_DeletedFragment ==
    ListedOk =>
        \A i \in 1..(FirstEnd(root) - 1) : RecIsTombstone(root, i) =>
            /\ CutAt(i)
            /\ RecIsEntry(root, i + 1) =>
                  res.out.val[Cardinality({j \in EntryIdx(root) : j <= i + 1})].lfn = <<>>

\* a listing across a live fragment, a tombstone, and the entry behind it
C5_Witness ==
    /\ ListedOk
    /\ \E i \in 2..(FirstEnd(root) - 1) :
          /\ RecIsTombstone(root, i)
          /\ RecIsLfn(root, i - 1) /\ ~RecIsTombstone(root, i - 1)
          /\ RecIsEntry(root, i + 1)

\* C6: list() is repeatable and does not depend on the cursor: every list()
\* gives what the first list() on the directory gave, whatever next(),
\* rewind(), list() or open_* calls came before or in between.
C6_ListRepeatable ==
    res.op = "list" => (firstList.tag # "NoList" /\ out = firstList.val)

\* a later list() of a directory that has entries, called with the cursor
\* neither at the start nor where a list() leaves it
C6_Witness ==
    /\ ListedOk
    /\ firstList.tag = "Again"
    /\ firstList.from # 0 /\ firstList.from # pos
    /\ Len(res.out.val) >= 1

---------------------------------------------------------------------------
(* Resolving a path component by component: what open_dir and open_file    *)
(* are compared with.                                                      *)

\* where the components of a path start: its parts between slashes
Starts(str) ==
    {k \in 1..Len(str) : str[k] # SLASH /\ (k = 1 \/ str[k - 1] = SLASH)}
EndOf(str, k) ==
    CHOOSE m \in k..Len(str) :
        /\ \A j \in k..m : str[j] # SLASH
        /\ m = Len(str) \/ str[m + 1] = SLASH

\* the non-empty components in order; a path without any is one empty name
Components(str) ==
    IF Starts(str) = {} THEN << <<>> >>
    ELSE [n \in 1..Cardinality(Starts(str)) |->
            SubSeq(str, NthOf(Starts(str), n), EndOf(str, NthOf(Starts(str), n)))]

IsAsciiLetter(c) == (c >= 65 /\ c <= 90) \/ (c >= 97 /\ c <= 122)

\* equal but for the case of ASCII letters
SameName(a, b) ==
    /\ Len(a) = Len(b)
    /\ \A k \in 1..Len(a) :
          \/ a[k] = b[k]
          \/ /\ IsAsciiLetter(a[k]) /\ IsAsciiLetter(b[k])
             /\ a[k] = b[k] + 32 \/ b[k] = a[k] + 32

\* bytes lo..hi of an 8.3 name without the trailing spaces
Unpadded(name, lo, hi) ==
    IF \A k \in lo..hi : name[k] = 32 THEN <<>>
    ELSE SubSeq(name, lo, CHOOSE m \in lo..hi :
                             name[m] # 32 /\ \A j \in (m + 1)..hi : name[j] = 32)

\* the display name: the long name if there is one, else NAME.EXT
Display(e) ==
    IF e.lfn # <<>> THEN e.lfn
    ELSE IF Unpadded(e.data.name, 9, 11) = <<>> THEN Unpadded(e.data.name, 1, 8)
    ELSE Unpadded(e.data.name, 1, 8) \o <<46>> \o Unpadded(e.data.name, 9, 11)

\* the long name has no surrogate unit, so it is the string of its units
NameOk(e) == \A k \in 1..Len(e.lfn) : e.lfn[k] < 55296 \/ e.lfn[k] > 57343

\* a long name with an unpaired surrogate is no string: a component, which
\* is one, never equals it
Matching(entries, name) ==
    {k \in 1..Len(entries) : NameOk(entries[k]) /\ SameName(Display(entries[k]), name)}
Least(S) == CHOOSE k \in S : \A j \in S : k <= j

\* the entries the scan for name reads the display name of
Scanned(entries, name) ==
    IF Matching(entries, name) = {} THEN 1..Len(entries)
    ELSE 1..Least(Matching(entries, name))
AllReadable(entries, name) == \A k \in Scanned(entries, name) : NameOk(entries[k])

RECURSIVE Walk(_, _, _, _, _)

\* the outcome r of the deeper levels, readable if this level was as well
WalkMark(r, ok) == [tag |-> r.tag, val |-> r.val, readable |-> r.readable /\ ok]

\* component i looked up among the entries l lists for directory c
WalkIn(d, comps, i, checks, l) ==
    IF l.tag # "Ok" THEN [tag |-> "Fault", val |-> i, readable |-> TRUE]
    ELSE IF Matching(l.val, comps[i]) = {}
    THEN [tag |-> "NotFound", val |-> i, readable |-> AllReadable(l.val, comps[i])]
    ELSE IF i = Len(comps)
    THEN [tag |-> "Found", val |-> l.val[Least(Matching(l.val, comps[i]))],
          readable |-> AllReadable(l.val, comps[i])]
    ELSE IF HasBit(l.val[Least(Matching(l.val, comps[i]))].data.attrs, DIRECTORY)
    THEN WalkMark(Walk(d, first_cluster(l.val[Least(Matching(l.val, comps[i]))]),
                       comps, i + 1, checks),
                  AllReadable(l.val, comps[i]))
    ELSE [tag |-> "NotDir", val |-> i, readable |-> AllReadable(l.val, comps[i])]

\* Found (the first entry matching the last component), NotFound (component
\* val matches nothing), NotDir (component val is a file but not the last),
\* or Fault (a directory on the way cannot be listed); readable when every
\* long name the scans had to read was well-formed UTF-16
Walk(d, c, comps, i, checks) ==
    WalkIn(d, comps, i, checks, list(stream_of(d, c), 0, checks).out)

\* the same outcome: the same tag carrying the same value
SameOut(a, b) == a.tag = b.tag /\ a.val = b.val

Opened == res.op \in {"open_file", "open_dir"}
Walked == Walk(disk, RootCluster, Components(res.param), 1, overflow_checks)

\* C7: open_file and open_dir resolve each component to the first entry, in
\* on-disk order, whose display name equals it but for the case of ASCII
\* letters: a handle is returned only when every component has such an
\* entry, and the entry handed to to_file / to_dir is the first such entry
\* of the last component (never an entry that differs in another code unit,
\* never a later one).
C7_FirstMatch ==
    Opened =>
        /\ (Walked.tag = "Found" /\ Walked.readable) =>
              SameOut(res.out, IF res.op = "open_file" THEN to_file(Walked.val)
                               ELSE to_dir(Walked.val))
        /\ res.out.tag = "Ok" => Walked.tag = "Found"

\* a file opened by a name that two entries of the directory carry
C7_Witness ==
    /\ res.op = "open_file" /\ res.out.tag = "Ok"
    /\ Cardinality(Matching(list(root, 0, overflow_checks).out.val,
                            Components(res.param)[1])) >= 2

\* C8: when a component, at any level, matches no entry of the directory it
\* is looked up in, open_file and open_dir return the NotFound error value.
C8_NotFound ==
    (Opened /\ Walked.tag = "NotFound") =>
        SameOut(res.out, [tag |-> "Err", val |-> "NotFound"])

\* C8 where every long name of the directories scanned is well-formed UTF-16
C8_NotFoundReadable ==
    (Opened /\ Walked.tag = "NotFound" /\ Walked.readable) =>
        SameOut(res.out, [tag |-> "Err", val |-> "NotFound"])

\* NotFound for the second component, inside a subdirectory that has entries
C8_Witness ==
    /\ Opened /\ Walked.tag = "NotFound" /\ Walked.val = 2
    /\ SameOut(res.out, [tag |-> "Err", val |-> "NotFound"])

\* the call asks for a handle of the kind the entry is not
KindMismatch ==
    \/ res.op = "to_file" /\ HasBit(res.param.data.attrs, DIRECTORY)
    \/ res.op = "to_dir" /\ ~HasBit(res.param.data.attrs, DIRECTORY)
    \/ Opened /\ Walked.tag = "NotDir" /\ Walked.readable
    \/ res.op = "open_file" /\ Walked.tag = "Found" /\ Walked.readable
          /\ HasBit(Walked.val.data.attrs, DIRECTORY)
    \/ res.op = "open_dir" /\ Walked.tag = "Found" /\ Walked.readable
          /\ ~HasBit(Walked.val.data.attrs, DIRECTORY)

\* C9: a kind mismatch (open_file on a directory, open_dir on a file, a
\* file as a non-final component, to_file / to_dir on the other kind) is
\* returned to the caller as an InvalidInput error value and never aborts.
C9_KindMismatchIsError ==
    KindMismatch => (alive /\ SameOut(res.out, [tag |-> "Err", val |-> "InvalidInput"]))

\* every record of the stream decodes, and none of them is an end marker:
\* draining it runs into the end of the region
RunsOut(s, checks) ==
    /\ ~HasEnd(s)
    /\ \A i \in 1..NumRecs(s) : ~RecFaults(s, i, checks)
    /\ Len(s.bytes) - NumRecs(s) * RecSize < NAME_LEN + 1
          \/ ~RecFaults([bytes |-> s.bytes \o Zeros(RecSize), ioErr |-> FALSE],
                        NumRecs(s) + 1, checks)

\* C10: when decoding a record fails while the directory is drained, list()
\* returns an error value carrying the failure and no entries, and so do
\* open_dir and open_file, which scan through list().
C10_DrainErrorIsReturned ==
    ((res.op = "list" \/ Opened) /\ RunsOut(root, overflow_checks)) =>
        /\ alive
        /\ res.out.tag = "Err"
        /\ res.out.val = IF root.ioErr THEN "Other" ELSE "UnexpectedEof"

---------------------------------------------------------------------------
(* The decoder and the iterator, record by record. *)

\* the decoder applied at the start of record i of the root directory
DecodedAt(i) == read_dir_entry_data(root, (i - 1) * RecSize)

\* C11: decoding a record whose attribute byte has bit 0x40 or 0x80 set
\* fails with a corruption error that the decoder returns as a value, and
\* that next() hands on as a value.
C11_BadAttrIsError ==
    /\ \A i \in 1..NumRecs(root) : RecAttr(root, i) >= 64 =>
          (DecodedAt(i).tag = "Err" /\ DecodedAt(i).err = "CorruptedFileSystem")
    /\ (res.op = "next" /\ pos % RecSize = NAME_LEN + 1
            /\ (pos \div RecSize) + 1 <= NumRecs(root)
            /\ RecAttr(root, (pos \div RecSize) + 1) >= 64) =>
          (res.out.tag = "SomeErr" /\ res.out.val = "CorruptedFileSystem")

\* a successful decode r from offset p ends 32 bytes further
Advances32(r, p) == r.tag = "Ok" => r.pos = p + RecSize

\* the Short Entry e holds the fields of record i of the stream
FromSlot(s, i, e) ==
    /\ e.data.name = RecName(s, i)
    /\ e.data.attrs = RecAttr(s, i)
    /\ e.data.create_date = U16le(RecBytes(s, i), 17)
    /\ e.data.first_cluster_hi = U16le(RecBytes(s, i), 21)
    /\ e.data.first_cluster_lo = U16le(RecBytes(s, i), 27)
    /\ e.data.size = U32le(RecBytes(s, i), 29)

\* the last call is a rewind() or a next() that gave an entry or the end
Stepped == res.op = "rewind" \/ (res.op = "next" /\ res.out.tag \in {"Some", "None"})

\* the offsets a decode starts at: the record boundaries, and the cursor
DecodeOffsets ==
    {i * RecSize : i \in 0..NumRecs(root)} \cup (IF alive THEN {pos} ELSE {})

\* C13: every successful decode, from a record boundary or from where the
\* cursor stands, advances the cursor by exactly 32 bytes; after rewind() and after every next() that gives an
\* entry or the end the cursor is a multiple of 32, and the entry or end
\* marker given is the record in the 32-byte slot that ends at the cursor.
C13_DecodeAdvances32 ==
    /\ \A p \in DecodeOffsets : Advances32(read_dir_entry_data(root, p), p)
    /\ Stepped => pos % RecSize = 0
    /\ (res.op = "next" /\ res.out.tag = "Some") =>
          (pos >= RecSize /\ FromSlot(root, pos \div RecSize, res.out.val))
    /\ (res.op = "next" /\ res.out.tag = "None") =>
          (pos >= RecSize /\ RecIsEnd(root, pos \div RecSize))

\* an entry given after two fragments and itself were decoded
C13_Witness ==
    /\ res.op = "next" /\ res.out.tag = "Some"
    /\ pos = 3 * RecSize
    /\ Len(res.out.val.lfn) > LFN_PART_LEN

\* the live fragments of the root directory
LiveFragments == {i \in 1..NumRecs(root) : RecIsLfn(root, i) /\ ~RecIsTombstone(root, i)}

\* C14: for every fragment whose order byte is not 0xE5, also one whose low
\* five bits are zero, the slot index (order & 0x1F) - 1 is computed without
\* underflow and lies in 0..30, and placing its 13 units does not fail: no
\* next() or list() ends in the overflow panic, and no long name is longer
\* than 31 chunks.
C14_SlotIndexInRange ==
    /\ \A i \in LiveFragments : lfn_index(RecFirst(root, i), overflow_checks) \in 0..30
    /\ res.out.tag = "Panic" => res.out.val # "attempt to subtract with overflow"
    /\ \A m \in 1..Len(EntriesSeen) : Len(EntriesSeen[m].lfn) <= 31 * LFN_PART_LEN

\* the last next() consumed the first end marker or started behind it
AtOrPastEnd == res.op = "next" /\ HasEnd(root) /\ pos >= FirstEnd(root) * RecSize

\* C15: end of directory is terminal: a next() that reaches the first end
\* marker, or is called with the cursor behind it (after a next() that
\* reported the end, without rewind()), reports end of directory, and so
\* never yields a record stored after the marker.
C15_EndIsTerminal == AtOrPastEnd => res.out.tag = "None"

\* what the next() call after the last call gives
Following == next(root, pos, overflow_checks)

\* the last call is a next() that gave an item: an entry or an error
GaveItem == alive /\ res.op = "next" /\ res.out.tag \in {"Some", "SomeErr"}

\* C16: the items of the iterator are finitely many: no next() that gave an
\* item leaves the iterator where the following next() gives an item again
\* without moving the cursor.  The cursor is all the state next() reads
\* (dir.rs:269-271), so from such a position every further call gives that
\* item, and the end is never reported.
C16_FiniteSequence ==
    GaveItem => (Following.out.tag = "None" \/ Following.pos # pos)

\* the fragments before record i that the buffer holds when record i is
\* scanned: those of its run behind the last deleted fragment
LiveRun(s, i) == {j \in Run(s, i) : \A m \in j..(i - 1) : ~RecIsTombstone(s, m)}

\* the slot index of fragment j, as a u8
SlotIdx(s, j) == (RecSlot(s, j) + 255) % 256

\* the greatest member of a non-empty set of numbers
Greatest(S) == CHOOSE x \in S : \A y \in S : y <= x

\* the fragments of the buffer of record i that wrote slot index n
WroteSlot(s, i, n) == {j \in LiveRun(s, i) : SlotIdx(s, j) = n}

\* the length of the buffer when record i is scanned
AccLen(s, i) ==
    IF LiveRun(s, i) = {} THEN 0
    ELSE LFN_PART_LEN * (Greatest({SlotIdx(s, j) : j \in LiveRun(s, i)}) + 1)

\* unit u of that buffer: of the last fragment that wrote its slot, else 0
AccUnit(s, i, u) ==
    IF WroteSlot(s, i, (u - 1) \div LFN_PART_LEN) = {} THEN 0
    ELSE RecUnits(s, Greatest(WroteSlot(s, i, (u - 1) \div LFN_PART_LEN)))
             [((u - 1) % LFN_PART_LEN) + 1]

\* the buffer accumulated since the last reset, when record i is scanned
Acc(s, i) == [u \in 1..AccLen(s, i) |-> AccUnit(s, i, u)]

\* the record the m-th entry seen was built from
SeenAt(m) ==
    IF res.op = "list" THEN NthOf(EntryIdx(root), m) ELSE pos \div RecSize

\* C17: the long name of every entry that next() or list() gives is the
\* buffer accumulated since the last reset (the start of the call, the
\* entry emitted or skipped before, a deleted fragment) without its maximal
\* trailing run of 0x0000 / 0xFFFF units and otherwise unchanged; it never
\* ends in such a unit, it is empty when no fragment stands right before
\* the Short Entry, and it holds no unit of an entry before it.
C17_LongNameIsTrimmedBuffer ==
    \A m \in 1..Len(EntriesSeen) :
        /\ IsTrimOf(EntriesSeen[m].lfn, Acc(root, SeenAt(m)))
        /\ Run(root, SeenAt(m)) = {} => EntriesSeen[m].lfn = <<>>

\* a listing where an entry under a long name of two fragments, trimmed of
\* padding, is followed at once by an entry without long name
C17_Witness ==
    /\ ListedOk
    /\ \E m \in 1..(Len(res.out.val) - 1) :
          /\ Len(res.out.val[m].lfn) > LFN_PART_LEN
          /\ Len(res.out.val[m].lfn) < AccLen(root, SeenAt(m))
          /\ SeenAt(m + 1) = SeenAt(m) + 1
          /\ res.out.val[m + 1].lfn = <<>>

---------------------------------------------------------------------------
(* Paths with consecutive slashes, and the depth of the resolver. *)

\* the path has an empty component between two non-empty ones
HasEmptyInterior(str) ==
    \E k \in 2..(Len(str) - 2) :
        /\ str[k] = SLASH /\ str[k + 1] = SLASH
        /\ \E j \in 1..(k - 1) : str[j] # SLASH
        /\ \E j \in (k + 2)..Len(str) : str[j] # SLASH

\* the components n.. of comps joined by single slashes
RECURSIVE JoinFrom(_, _)
JoinFrom(comps, n) ==
    IF n = Len(comps) THEN comps[n]
    ELSE comps[n] \o <<SLASH>> \o JoinFrom(comps, n + 1)

\* the same path with single slashes
Squeezed(str) == JoinFrom(Components(str), 1)

\* what the last open_file / open_dir call gives for path str
OpenOf(str) ==
    IF res.op = "open_file" THEN open_file(disk, RootCluster, 0, str, overflow_checks).out
    ELSE open_dir(disk, RootCluster, 0, str, overflow_checks).out

\* the last call opened a path with an empty interior component
OpenedDoubled == Opened /\ HasEmptyInterior(res.param)

\* C18: open_file and open_dir give for a path with an empty interior
\* component (consecutive slashes, "a//b") what they give for the same path
\* with single slashes ("a/b"): the handle when that resolves, its error
\* when it does not; the empty component is never looked up as a name.
C18_DoubledSlashResolves ==
    OpenedDoubled => SameOut(res.out, OpenOf(Squeezed(res.param)))

\* a file two levels down opened through a path with a doubled slash
C18_Witness ==
    /\ res.op = "open_file" /\ HasEmptyInterior(res.param)
    /\ Len(Components(res.param)) = 2
    /\ res.out.tag = "Ok"

\* C18 as stated: a path with an empty interior component fails lookup,
\* also where the same path with single slashes resolves.
C18_EmptyComponentFails ==
    (OpenedDoubled /\ OpenOf(Squeezed(res.param)).tag = "Ok") => res.out.tag = "Err"

\* the paths the nested open_dir / open_file calls receive when path is
\* opened on the directory at cluster c: path itself, then the tail each
\* call hands to the call it makes on the directory it found
RECURSIVE Calls(_, _, _, _)
Calls(d, c, path, checks) ==
    LET sp == split_path(path)
        f == find_entry(d, c, 0, sp.comp, checks)
    IN  IF f.out.tag = "Ok" /\ sp.has_rest /\ to_dir(f.out.val).tag # "Panic"
        THEN <<path>> \o Calls(d, to_dir(f.out.val).val.cluster, sp.rest, checks)
        ELSE <<path>>

\* the calls of the last open_file / open_dir
CallsMade == Calls(disk, RootCluster, res.param, overflow_checks)

\* C19: the nested calls of open_file / open_dir are at most as many as the
\* path has components between slashes, and every call but the first
\* receives a tail that is strictly shorter than the path it was split
\* from and is not empty once its slashes are trimmed.
C19_DepthBounded ==
    Opened =>
        /\ Len(CallsMade) <= Len(Components(res.param))
        /\ \A n \in 2..Len(CallsMade) :
              /\ Len(CallsMade[n]) < Len(CallsMade[n - 1])
              /\ trim_matches(CallsMade[n]) # <<>>

\* a resolution as deep as the path has components, the nested call having
\* received a tail that starts with a slash
C19_Witness ==
    /\ Opened /\ Len(CallsMade) = 2 /\ Len(Components(res.param)) = 2
    /\ CallsMade[2][1] = SLASH

---------------------------------------------------------------------------
(* The error model (src/src/error.rs).  An Error<T> is [variant], with the *)
(* wrapped storage error under `io` for Io; a std::io::Error is            *)
(* [kind, payload], the payload being what Self::new was given: a message  *)
(* of the storage, or the Error it was made from.                          *)

\* how many distinct messages the storage's errors carry
NumMsgs == 3

\* the variants of Error<T> but Io
PlainVariants ==
    {"UnexpectedEof", "WriteZero", "InvalidInput", "NotFound", "AlreadyExists",
     "DirectoryIsNotEmpty", "CorruptedFileSystem", "NotEnoughSpace",
     "InvalidFileNameLength", "UnsupportedFileNameCharacter", "_Nonexhaustive"}

\* std::io::ErrorKind values a storage reports
IoKinds ==
    {"NotFound", "PermissionDenied", "AlreadyExists", "InvalidInput", "InvalidData",
     "TimedOut", "WriteZero", "Interrupted", "Other", "UnexpectedEof"}

\* the std::io::Error values of the storage
StorageErrors == {[kind |-> k, payload |-> [msg |-> m]] : k \in IoKinds, m \in 1..NumMsgs}

\* Error::Io(error)
from_io(error) == [variant |-> "Io", io |-> error]

\* every Error<std::io::Error>
Errors == {[variant |-> v] : v \in PlainVariants} \cup {from_io(e) : e \in StorageErrors}

\* std::io::Error::new(kind, error)
io_new(kind, error) == [kind |-> kind, payload |-> error]

\* a conversion that knows four kinds only
into_four_buckets(error) ==
    IF error.variant = "Io" THEN error.io
    ELSE IF error.variant \in {"InvalidInput", "InvalidFileNameLength",
                               "UnsupportedFileNameCharacter", "DirectoryIsNotEmpty"}
    THEN io_new("InvalidInput", error)
    ELSE IF error.variant \in {"NotFound", "AlreadyExists"}
    THEN io_new(error.variant, error)
    ELSE io_new("Other", error)

\* impl From<Error<std::io::Error>> for std::io::Error
into_io_error(error) ==
    IF error.variant = "Io" THEN error.io
    ELSE IF error.variant \in {"UnexpectedEof", "NotEnoughSpace"}
    THEN io_new("UnexpectedEof", error)
    ELSE IF error.variant = "WriteZero" THEN io_new("WriteZero", error)
    ELSE IF error.variant \in {"InvalidInput", "InvalidFileNameLength",
                               "UnsupportedFileNameCharacter", "DirectoryIsNotEmpty"}
    THEN io_new("InvalidInput", error)
    ELSE IF error.variant = "NotFound" THEN io_new("NotFound", error)
    ELSE IF error.variant = "AlreadyExists" THEN io_new("AlreadyExists", error)
    ELSE IF error.variant = "CorruptedFileSystem" THEN io_new("InvalidData", error)
    ELSE io_new("Other", error)

\* IoError::is_interrupted for std::io::Error
io_is_interrupted(e) == e.kind = "Interrupted"

\* IoError::is_interrupted for Error<T>
is_interrupted(error) ==
    IF error.variant = "Io" THEN io_is_interrupted(error.io) ELSE FALSE

\* no directory is read while errors are converted
InitErr ==
    /\ disk = Volume([bytes |-> RecEnd, ioErr |-> FALSE])
    /\ pos = 0
    /\ op = "new"
    /\ param = NoParam
    /\ out = Kept("new", Unit)
    /\ firstList = [tag |-> "NoList", val |-> Kept("new", Unit), from |-> 0]
    /\ alive = TRUE
    /\ overflow_checks = FALSE

Gives(name, arg, val) ==
    /\ op' = name
    /\ param' = arg
    /\ out' = [tag |-> "Ok", val |-> val]
    /\ UNCHANGED <<disk, pos, firstList, alive, overflow_checks>>

\* Error::from(e) on an error of the storage
FromIo == \E e \in StorageErrors : Gives("from_io", e, from_io(e))

\* std::io::Error::from(error)
IntoIoError == \E error \in Errors : Gives("into_io_error", error, into_io_error(error))

\* error.is_interrupted()
IsInterrupted ==
    \E error \in Errors : Gives("is_interrupted", error, [bool |-> is_interrupted(error)])

\* an error of the storage wrapped and converted back in one step
RoundTrip ==
    \E e \in StorageErrors : Gives("round_trip", e, into_io_error(from_io(e)))

NextErr == FromIo \/ IntoIoError \/ IsInterrupted \/ RoundTrip

SpecErr == InitErr /\ [][NextErr]_vars

\* the kind each variant but Io converts to
KindOf(v) ==
    CASE v \in {"UnexpectedEof", "NotEnoughSpace"} -> "UnexpectedEof"
      [] v = "WriteZero" -> "WriteZero"
      [] v \in {"InvalidInput", "InvalidFileNameLength",
                "UnsupportedFileNameCharacter", "DirectoryIsNotEmpty"} -> "InvalidInput"
      [] v = "NotFound" -> "NotFound"
      [] v = "AlreadyExists" -> "AlreadyExists"
      [] v = "CorruptedFileSystem" -> "InvalidData"
      [] OTHER -> "Other"

Converted == op = "into_io_error"

\* C12 (as the code has it): the conversion classifies the variants into
\* seven kinds, not four: NotFound to not-found, AlreadyExists to
\* already-exists, the four invalid-input variants to invalid-input,
\* UnexpectedEof and NotEnoughSpace to unexpected-eof, WriteZero to
\* write-zero, CorruptedFileSystem to invalid-data, and only the hidden
\* variant to other, each wrapping the error it was made from; Io(e)
\* converts to e unchanged.
C12_SevenKinds ==
    /\ (Converted /\ param.variant = "Io") => out.val = param.io
    /\ (Converted /\ param.variant # "Io") =>
          (out.val.kind = KindOf(param.variant) /\ out.val.payload = param)
    /\ op = "round_trip" => out.val = param

\* a corrupted file system converted to invalid-data
C12_Witness ==
    /\ Converted /\ param.variant = "CorruptedFileSystem"
    /\ out.val.kind = "InvalidData"

\* C12 (as stated): every variant but Io falls into one of four buckets:
\* NotFound to not-found, AlreadyExists to already-exists, the invalid-input
\* variants to invalid-input, every other one to other.
C12_FourBuckets ==
    (Converted /\ param.variant # "Io") =>
        /\ out.val.kind \in {"NotFound", "AlreadyExists", "InvalidInput", "Other"}
        /\ param.variant \in {"UnexpectedEof", "WriteZero", "CorruptedFileSystem",
                              "NotEnoughSpace", "_Nonexhaustive"} =>
              out.val.kind = "Other"

---------------------------------------------------------------------------
(* The timestamps of an entry: a directory of one Short Entry whose date   *)
(* and time fields hold packed values from DosDates and DosTimes, read     *)
(* with next(), and the accessors called on the entry.                     *)

\* packed dates: all zero; 1980-01-01; 1980-02-29; 1981-02-29; 1980-02-30;
\* 1980-04-31; 1980-01-00; month 0, day 1; month 13, day 1; 2107-12-31;
\* all ones (2107, month 15, day 31)
DosDates == {0, 33, 93, 605, 94, 159, 32, 1, 417, 65439, 65535}

\* packed times: 00:00:00; 23:59:58; hour 24; minute 60; second 60;
\* all ones (31:63:62)
DosTimes == {0, 49021, 49152, 1920, 30, 65535}

\* a Short Entry "REPORT  TXT" whose three dates are date and whose two
\* times are time
TimedRec(date, time) ==
    NameReport \o <<ARCHIVE, 0, 0>> \o Le16(time) \o Le16(date) \o Le16(date)
         \o Le16(0) \o Le16(time) \o Le16(date)
         \o Le16(FileCluster) \o Le32(1000)

TimedStreams ==
    {[bytes |-> TimedRec(d, t) \o RecEnd, ioErr |-> FALSE] : d \in DosDates, t \in DosTimes}

InitTime ==
    /\ disk \in {Volume(r) : r \in TimedStreams}
    /\ pos = 0
    /\ op = "new"
    /\ param = NoParam
    /\ out = Kept("new", Unit)
    /\ firstList = [tag |-> "NoList", val |-> Kept("new", Unit), from |-> 0]
    /\ alive = TRUE
    /\ overflow_checks = FALSE

\* e.created() on an entry the caller holds
Created ==
    /\ alive
    /\ \E e \in HeldEntries : Returns("created", e, [out |-> created(e), pos |-> pos])
    /\ UNCHANGED <<disk, firstList, overflow_checks>>

\* e.accessed() on an entry the caller holds
Accessed ==
    /\ alive
    /\ \E e \in HeldEntries : Returns("accessed", e, [out |-> accessed(e), pos |-> pos])
    /\ UNCHANGED <<disk, firstList, overflow_checks>>

\* e.modified() on an entry the caller holds
Modified ==
    /\ alive
    /\ \E e \in HeldEntries : Returns("modified", e, [out |-> modified(e), pos |-> pos])
    /\ UNCHANGED <<disk, firstList, overflow_checks>>

NextTime == Rewind \/ Next_ \/ Created \/ Accessed \/ Modified

SpecTime == InitTime /\ [][NextTime]_vars

\* the last call is a timestamp accessor, and the packed fields it decoded
Timestamped == op \in {"created", "accessed", "modified"}
DateField ==
    IF op = "created" THEN param.data.create_date
    ELSE IF op = "accessed" THEN param.data.access_date
    ELSE param.data.modify_date
TimeField ==
    IF op = "created" THEN param.data.create_time_1
    ELSE IF op = "modified" THEN param.data.modify_time
    ELSE 0

\* C20: created(), accessed() and modified() return a calendar date-time
\* for every packed date and time an emitted entry carries: the decoded
\* month is in 1..12, the day is a day of that month, the hour is at most
\* 23, the minute at most 59, the second at most 59, and the call does not
\* fail.
C20_TimestampsNeverFail ==
    Timestamped =>
        /\ (DateField \div 32) % 16 \in 1..12
        /\ DateField % 32 \in 1..days_in_month((DateField \div 512) + 1980,
                                                (DateField \div 32) % 16)
        /\ TimeField \div 2048 <= 23
        /\ (TimeField \div 32) % 64 <= 59
        /\ (TimeField % 32) * 2 <= 59
        /\ out.tag = "Ok"

\* the entry dated 1980-01-01 00:00:00 read as that date-time
C20_Witness ==
    /\ op = "created" /\ out.tag = "Ok"
    /\ out.val = [year |-> 1980, month |-> 1, day |-> 1, hour |-> 0, min |-> 0, sec |-> 0]

=============================================================================
